---- MODULE Spec2Model ----
(***************************************************************************)
(* A model of the account service of pogo-accounts: the validation and     *)
(* sanitization function, the five route handlers of                       *)
(* server/src/pogo-accounts.routes.ts and the document collection they     *)
(* call.  A request is handled in atomic pieces: the synchronous code of   *)
(* a handler up to its next `await`, and each store call together with the *)
(* code that runs when it returns or throws.                               *)
(*                                                                         *)
(* JSON values are tagged records [t |-> type, v |-> text]: a string keeps *)
(* its text, a number keeps its decimal rendering (what toString gives).   *)
(* Texts are TLA+ strings, read character by character with SubSeq.        *)
(***************************************************************************)
EXTENDS Integers, Sequences, FiniteSets, TLC

\* ------------------------------------------------------------------ text

Lower == {"a","b","c","d","e","f","g","h","i","j","k","l","m",
          "n","o","p","q","r","s","t","u","v","w","x","y","z"}
Upper == {"A","B","C","D","E","F","G","H","I","J","K","L","M",
          "N","O","P","Q","R","S","T","U","V","W","X","Y","Z"}
Digit == {"0","1","2","3","4","5","6","7","8","9"}
HexDigit == Digit \cup {"a","b","c","d","e","f","A","B","C","D","E","F"}
Space == {" ", "\t", "\n"}

CharAt(s, i) == SubSeq(s, i, i)

AllChars(s, class) == \A i \in 1..Len(s) : CharAt(s, i) \in class

\* String.prototype.includes
Includes(s, t) ==
    \E i \in 1..(Len(s) - Len(t) + 1) : SubSeq(s, i, i + Len(t) - 1) = t

\* String.prototype.trim
trim(s) ==
    LET keep == {i \in 1..Len(s) : CharAt(s, i) \notin Space}
    IN  IF keep = {} THEN ""
        ELSE LET lo == CHOOSE i \in keep : \A j \in keep : i <= j
                 hi == CHOOSE i \in keep : \A j \in keep : j <= i
             IN  SubSeq(s, lo, hi)

\* validator.escape: ampersand, quotes, angle brackets, slash and backslash
\* become entities (it also maps the backtick, a character TLA+ strings
\* cannot hold, so no input of the model contains one)
validatorEscapeChar(c) ==
    CASE c = "&"  -> "&amp;"
      [] c = "\"" -> "&quot;"
      [] c = "'"  -> "&#x27;"
      [] c = "<"  -> "&lt;"
      [] c = ">"  -> "&gt;"
      [] c = "/"  -> "&#x2F;"
      [] c = "\\" -> "&#x5C;"
      [] OTHER    -> c

RECURSIVE validatorEscapeFrom(_, _)
validatorEscapeFrom(s, i) ==
    IF i > Len(s) THEN ""
    ELSE validatorEscapeChar(CharAt(s, i)) \o validatorEscapeFrom(s, i + 1)

validatorEscape(s) == validatorEscapeFrom(s, 1)

\* escape-html: quotes, ampersand and angle brackets become entities
escapeHtmlChar(c) ==
    CASE c = "\"" -> "&quot;"
      [] c = "&"  -> "&amp;"
      [] c = "'"  -> "&#39;"
      [] c = "<"  -> "&lt;"
      [] c = ">"  -> "&gt;"
      [] OTHER    -> c

RECURSIVE escapeHtmlFrom(_, _)
escapeHtmlFrom(s, i) ==
    IF i > Len(s) THEN ""
    ELSE escapeHtmlChar(CharAt(s, i)) \o escapeHtmlFrom(s, i + 1)

escapeHtml(s) == escapeHtmlFrom(s, 1)

\* Positions of character c in s.
Positions(s, c) == {i \in 1..Len(s) : CharAt(s, i) = c}

\* The pieces of s between the positions in cuts (String.prototype.split on
\* one character): every piece, empty ones included.
Pieces(s, cuts) ==
    LET marks == cuts \cup {0, Len(s) + 1}
    IN  {SubSeq(s, a + 1, b - 1) :
            <<a, b>> \in {p \in marks \X marks :
                            /\ p[1] < p[2]
                            /\ \A m \in marks : ~(p[1] < m /\ m < p[2])}}

splitOn(s, c) == Pieces(s, Positions(s, c))

\* The value of a text of decimal digits.
DigitValue(c) ==
    CASE c = "0" -> 0 [] c = "1" -> 1 [] c = "2" -> 2 [] c = "3" -> 3
      [] c = "4" -> 4 [] c = "5" -> 5 [] c = "6" -> 6 [] c = "7" -> 7
      [] c = "8" -> 8 [] c = "9" -> 9

RECURSIVE NatOf(_)
NatOf(s) ==
    IF Len(s) = 0 THEN 0
    ELSE 10 * NatOf(SubSeq(s, 1, Len(s) - 1)) + DigitValue(CharAt(s, Len(s)))

\* ------------------------------------------------------ the validator library

\* validator.isNumeric, default options: /^[+-]?([0-9]*[.])?[0-9]+$/
Unsigned(s) ==
    IF Len(s) > 0 /\ CharAt(s, 1) \in {"+", "-"} THEN SubSeq(s, 2, Len(s)) ELSE s

isNumeric(s) ==
    LET u    == Unsigned(s)
        dots == Positions(u, ".")
    IN  IF dots = {} THEN Len(u) > 0 /\ AllChars(u, Digit)
        ELSE /\ Cardinality(dots) = 1
             /\ LET p == CHOOSE d \in dots : TRUE
                IN  /\ AllChars(SubSeq(u, 1, p - 1), Digit)
                    /\ p < Len(u)
                    /\ AllChars(SubSeq(u, p + 1, Len(u)), Digit)

\* parseFloat of a text isNumeric accepts: its sign, its whole part and whether
\* a fraction digit is not zero.  That decides every comparison with a whole
\* number.
parseFloat(s) ==
    LET u    == Unsigned(s)
        dots == Positions(u, ".")
        p    == IF dots = {} THEN Len(u) + 1 ELSE CHOOSE d \in dots : TRUE
    IN  [neg  |-> Len(s) > 0 /\ CharAt(s, 1) = "-",
         int  |-> NatOf(SubSeq(u, 1, p - 1)),
         frac |-> ~AllChars(SubSeq(u, p + 1, Len(u)), {"0"})]

\* x < m and x > m for a parsed x and a whole number m >= 1
LessThan(x, m) == x.neg \/ x.int < m

GreaterThan(x, m) == ~x.neg /\ (x.int > m \/ (x.int = m /\ x.frac))

\* validator.isFQDN with the options isEmail passes: a top-level domain is
\* required, no underscores, no trailing dot, no numeric top-level domain.
isFQDN(d) ==
    LET dots   == Positions(d, ".")
        last   == IF dots = {} THEN 0 ELSE CHOOSE i \in dots : \A j \in dots : j <= i
        tld    == SubSeq(d, last + 1, Len(d))
        labels == splitOn(d, ".")
    IN  /\ dots # {}
        /\ \/ Len(tld) >= 2 /\ AllChars(tld, Lower \cup Upper)
           \/ /\ Len(tld) >= 4
              /\ SubSeq(tld, 1, 2) \in {"xn", "Xn", "xN", "XN"}
              /\ AllChars(SubSeq(tld, 3, Len(tld)), Lower \cup Upper \cup Digit \cup {"-"})
        /\ \A l \in labels :
              /\ Len(l) >= 1 /\ Len(l) <= 63
              /\ AllChars(l, Lower \cup Upper \cup Digit \cup {"-"})
              /\ CharAt(l, 1) # "-" /\ CharAt(l, Len(l)) # "-"

\* The characters of an unquoted local part (emailUserUtf8Part, ASCII range;
\* the backtick is left out, see validatorEscapeChar).
EmailUserChars ==
    Lower \cup Upper \cup Digit \cup
    {"!", "#", "$", "%", "&", "'", "*", "+", "-", "/", "=", "?", "^", "_",
     "{", "|", "}", "~"}

\* validator.isEmail, default options, of a string: the text after the last @
\* is the domain, the text before it the local part; a local part in double
\* quotes may hold any character but a double quote and a backslash.
isEmail(s) ==
    LET ats    == Positions(s, "@")
        cut    == IF ats = {} THEN 0 ELSE CHOOSE i \in ats : \A j \in ats : j <= i
        user   == SubSeq(s, 1, cut - 1)
        domain == SubSeq(s, cut + 1, Len(s))
    IN  /\ Len(s) <= 254
        /\ Len(user) <= 64
        /\ isFQDN(domain)
        /\ IF Len(user) >= 1 /\ CharAt(user, 1) = "\"" /\ CharAt(user, Len(user)) = "\""
           THEN AllChars(SubSeq(user, 2, Len(user) - 1),
                         (EmailUserChars \cup Space \cup
                          {"<", ">", "(", ")", ",", ";", ":", "@", ".", "[", "]"}))
           ELSE \A part \in splitOn(user, ".") :
                    Len(part) >= 1 /\ AllChars(part, EmailUserChars)

Months == {"01","02","03","04","05","06","07","08","09","10","11","12"}
Days == Months \cup {"13","14","15","16","17","18","19","20","21","22","23",
                     "24","25","26","27","28","29","30","31"}
Hours == Months \cup {"00","13","14","15","16","17","18","19","20","21","22","23"}

IsSixty(s) == Len(s) = 2 /\ CharAt(s, 1) \in {"0","1","2","3","4","5"}
                         /\ CharAt(s, 2) \in Digit

\* The time of day forms HH:MM and HH:MM:SS, with an optional Z
IsTimeOfDay(t) ==
    LET u == IF Len(t) > 0 /\ CharAt(t, Len(t)) \in {"Z", "z"}
             THEN SubSeq(t, 1, Len(t) - 1) ELSE t
    IN  /\ Len(u) \in {5, 8}
        /\ SubSeq(u, 1, 2) \in Hours
        /\ CharAt(u, 3) = ":"
        /\ IsSixty(SubSeq(u, 4, 5))
        /\ Len(u) = 8 => CharAt(u, 6) = ":" /\ IsSixty(SubSeq(u, 7, 8))

\* validator.isISO8601 (not strict) of a string, for the calendar forms YYYY,
\* YYYY-MM, YYYY-MM-DD and YYYY-MM-DD followed by T or a space and a time of
\* day.  The week, ordinal and basic (no hyphen) forms of the library's
\* pattern are not modelled: no input of the model uses them.
isISO8601(s) ==
    /\ Len(s) >= 4
    /\ AllChars(SubSeq(s, 1, 4), Digit)
    /\ Len(s) > 4 =>
          /\ Len(s) >= 7
          /\ CharAt(s, 5) = "-"
          /\ SubSeq(s, 6, 7) \in Months
    /\ Len(s) > 7 =>
          /\ Len(s) >= 10
          /\ CharAt(s, 8) = "-"
          /\ SubSeq(s, 9, 10) \in Days
    /\ Len(s) > 10 =>
          /\ CharAt(s, 11) \in {"T", " "}
          /\ IsTimeOfDay(SubSeq(s, 12, Len(s)))

\* ------------------------------------------------------------ JSON values

Str(text) == [t |-> "str", v |-> text]

\* A JSON number, by its decimal rendering
Num(text) == [t |-> "num", v |-> text]

\* typeof value === 'string'
IsString(value) == value.t = "str"

\* !value : the empty string and the number zero are falsy
Falsy(value) ==
    \/ value.t = "str" /\ value.v = ""
    \/ value.t = "num" /\ value.v \in {"0", "-0"}

\* value.toString(), also the text a pattern test or parseFloat reads
toString(value) == value.v

\* A request body: an object with its members, or no object at all (no JSON
\* body was parsed)
Object(members) == [isObject |-> TRUE, members |-> members]

NoBody == [isObject |-> FALSE, members |-> <<>>]

\* ------------------------------------------------------------ validation

\* A rule table walked in the alphabetical order of its keys
FieldOrder_Alphabetical ==
    <<"birthday", "country", "email", "level", "team", "username">>

\* The order of the keys of the rule table, which Object.entries keeps
FieldOrder == <<"username", "email", "team", "country", "birthday", "level">>

UsernameChars == Lower \cup Upper \cup Digit \cup {"_", "-"}

CountryChars == Lower \cup Upper \cup Space \cup {"-"}

\* The rule table.  A rule a field does not have is FALSE, 0, the empty
\* pattern or the empty enum.
allowedFields ==
    [username |-> [required |-> TRUE, maxLength |-> 50, pattern |-> UsernameChars,
                   isEmail |-> FALSE, enum |-> {}, isDate |-> FALSE,
                   isNumeric |-> FALSE, min |-> 0, max |-> 0],
     email    |-> [required |-> TRUE, maxLength |-> 100, pattern |-> {},
                   isEmail |-> TRUE, enum |-> {}, isDate |-> FALSE,
                   isNumeric |-> FALSE, min |-> 0, max |-> 0],
     team     |-> [required |-> TRUE, maxLength |-> 0, pattern |-> {},
                   isEmail |-> FALSE, enum |-> {"instinct", "mystic", "valor"},
                   isDate |-> FALSE, isNumeric |-> FALSE, min |-> 0, max |-> 0],
     country  |-> [required |-> FALSE, maxLength |-> 50, pattern |-> CountryChars,
                   isEmail |-> FALSE, enum |-> {}, isDate |-> FALSE,
                   isNumeric |-> FALSE, min |-> 0, max |-> 0],
     birthday |-> [required |-> FALSE, maxLength |-> 0, pattern |-> {},
                   isEmail |-> FALSE, enum |-> {}, isDate |-> TRUE,
                   isNumeric |-> FALSE, min |-> 0, max |-> 0],
     level    |-> [required |-> FALSE, maxLength |-> 0, pattern |-> {},
                   isEmail |-> FALSE, enum |-> {}, isDate |-> FALSE,
                   isNumeric |-> TRUE, min |-> 1, max |-> 50]]

Accepted(account) == [ok |-> TRUE, account |-> account, message |-> ""]

Thrown(message) == [ok |-> FALSE, account |-> <<>>, message |-> message]

\* assertString of the validator library, which isEmail and isISO8601 call first
NotAString(value) ==
    Thrown("Expected a string but received a " \o
           (IF value.t = "num" THEN "number" ELSE value.t))

\* A pattern tested on the trimmed text
PatternTest_Trimmed(class, value) ==
    Len(trim(toString(value))) > 0 /\ AllChars(trim(toString(value)), class)

\* /^[...]+$/.test(value) : the value's text, not empty, all in the class
PatternTest(class, value) ==
    Len(toString(value)) > 0 /\ AllChars(toString(value), class)

\* An enum test on the trimmed text
EnumIncludes_Trimmed(enum, value) == IsString(value) /\ trim(value.v) \in enum

\* rules.enum.includes(value): the value is a string equal to a member
EnumIncludes(enum, value) == IsString(value) /\ value.v \in enum

\* The text of the enum error: the members joined by a comma
EnumError(field) == field \o " must be one of: instinct, mystic, valor"

\* The decimal text of a positive whole number of at most three digits
DecimalText(n) ==
    LET d == <<"0","1","2","3","4","5","6","7","8","9">>
    IN  (IF n >= 100 THEN d[(n \div 100) + 1] ELSE "") \o
        (IF n >= 10 THEN d[((n \div 10) % 10) + 1] ELSE "") \o
        d[(n % 10) + 1]

\* The checks of one present field, in the order of the loop body: the error
\* thrown, or the empty text when every check passes.
FieldError(field, rules, value) ==
    IF rules.isEmail /\ ~IsString(value) THEN NotAString(value).message
    ELSE IF rules.isEmail /\ ~isEmail(value.v)
    THEN field \o " must be a valid email address"
    ELSE IF rules.isNumeric /\ ~isNumeric(toString(value))
    THEN field \o " must be a number"
    ELSE IF rules.isDate /\ ~IsString(value) THEN NotAString(value).message
    ELSE IF rules.isDate /\ ~isISO8601(value.v)
    THEN field \o " must be a valid date"
    ELSE IF rules.pattern # {} /\ ~PatternTest(rules.pattern, value)
    THEN field \o " contains invalid characters"
    ELSE IF rules.enum # {} /\ ~EnumIncludes(rules.enum, value)
    THEN EnumError(field)
    ELSE IF rules.maxLength # 0 /\ IsString(value) /\ Len(value.v) > rules.maxLength
    THEN field \o " must be less than " \o DecimalText(rules.maxLength) \o " characters"
    ELSE IF rules.min # 0 /\ LessThan(parseFloat(toString(value)), rules.min)
    THEN field \o " must be at least " \o DecimalText(rules.min)
    ELSE IF rules.max # 0 /\ GreaterThan(parseFloat(toString(value)), rules.max)
    THEN field \o " must be at most " \o DecimalText(rules.max)
    ELSE ""

\* Sanitization that trims and does not escape
SanitizedValue_TrimOnly(value) ==
    IF IsString(value) THEN Str(trim(value.v)) ELSE value

\* The value stored for a field that passed: a string is trimmed and escaped
\* twice, any other value is kept as it is.
SanitizedValue(value) ==
    IF IsString(value) THEN Str(escapeHtml(validatorEscape(trim(value.v))))
    ELSE value

\* The loop over the rule table from field number k on, with the fields
\* sanitized so far.
RECURSIVE SanitizeFrom(_, _, _)
SanitizeFrom(members, k, sanitizedAccount) ==
    IF k > Len(FieldOrder) THEN Accepted(sanitizedAccount)
    ELSE LET field   == FieldOrder[k]
             rules   == allowedFields[field]
             present == field \in DOMAIN members
             absent  == ~present \/ Falsy(members[field])
         IN  IF rules.required /\ (absent \/ trim(toString(members[field])) = "")
             THEN Thrown(field \o " is required")
             ELSE IF absent /\ ~rules.required
             THEN SanitizeFrom(members, k + 1, sanitizedAccount)
             ELSE LET err == FieldError(field, rules, members[field])
                  IN  IF err # "" THEN Thrown(err)
                      ELSE SanitizeFrom(members, k + 1,
                               (field :> SanitizedValue(members[field]))
                                   @@ sanitizedAccount)

\* Validation that copies the body and overwrites the fields it sanitized
sanitizePogoAccount_Spread(body) ==
    IF ~body.isObject THEN Thrown("Invalid account data")
    ELSE LET walked == SanitizeFrom(body.members, 1, <<>>)
         IN  IF walked.ok THEN Accepted(walked.account @@ body.members) ELSE walked

sanitizePogoAccount(body) ==
    IF ~body.isObject THEN Thrown("Invalid account data")
    ELSE SanitizeFrom(body.members, 1, <<>>)

\* ------------------------------------------------------ identifiers and store

\* The number of records the store ever holds: the identifiers it can assign
MaxIds == 2

\* The last millisecond of the clock
MaxClock == 1

\* The handlers that can be in flight together
MaxSlots == 2

Slots == 1..MaxSlots

Ids == 1..MaxIds

\* The three decimal digits of a whole number below 1000
Pad3(n) ==
    LET d == <<"0","1","2","3","4","5","6","7","8","9">>
    IN  d[(n \div 100) + 1] \o d[((n \div 10) % 10) + 1] \o d[(n % 10) + 1]

\* The identifier the store assigns to its n-th insert, as 24 hex characters
IdText(n) ==
    IF n < 10 THEN "507f1f77bcf86cd79943901" \o DecimalText(n)
    ELSE "507f1f77bcf86cd79943a" \o Pad3(n)

\* Identifiers a client can put in a path that are not well formed: 23
\* characters, 25 characters, and 24 characters that are not all hex
ShortId == "507f1f77bcf86cd79943901"

LongId == "507f1f77bcf86cd7994390111"

NotHexId == "zzzzzzzzzzzzzzzzzzzzzzzz"

\* The identifiers in the paths of the interleaved handlers
CoreIds == {IdText(n) : n \in Ids} \cup {ShortId}

\* The identifiers in the paths of the handlers run one at a time
PathIds == CoreIds \cup {LongId, NotHexId}

\* mongodb.ObjectId.isValid of a string, and the test the ObjectId constructor
\* makes: 24 hex characters
ObjectIdIsValid(id) == Len(id) = 24 /\ AllChars(id, HexDigit)

\* isValidObjectId with the length test alone
isValidObjectId_LengthOnly(id) == Len(id) = 24

isValidObjectId(id) == ObjectIdIsValid(id) /\ Len(id) = 24

\* A query that matches the first document whatever the identifier
IdNumber_AnyRecord(id) == 1

\* The record number a well-formed identifier names (0: none the store assigned)
IdNumber(id) ==
    IF \E n \in Ids : IdText(n) = id THEN CHOOSE n \in Ids : IdText(n) = id ELSE 0

\* A stored document as a response shows it: with its _id
WithId(n, doc) == ("_id" :> Str(IdText(n))) @@ doc

\* find({}).limit(100).toArray(): at most ListLimit documents, in insertion order
ListLimit == 100

\* A find without its limit
FindAll_NoLimit(docs) == {WithId(n, docs[n]) : n \in DOMAIN docs}

FindAll(docs) ==
    LET first == {n \in DOMAIN docs :
                     Cardinality({m \in DOMAIN docs : m < n}) < ListLimit}
    IN  {WithId(n, docs[n]) : n \in first}

\* The existence check made on the username field
WithEmail_ByUsername(docs, value) == {n \in DOMAIN docs : docs[n].username = value}

\* The existence check made on a field no document has
WithEmail_NoField(docs, value) == {}

\* findOne({email: value}): the documents whose email equals the value
WithEmail(docs, value) == {n \in DOMAIN docs : docs[n].email = value}

\* An update that replaces the whole document by the fields
SetFields_Replace(doc, fields) == fields

\* updateOne(query, {$set: fields}): the document with the fields replaced
SetFields(doc, fields) ==
    [k \in DOMAIN doc \cup DOMAIN fields |->
        IF k \in DOMAIN fields THEN fields[k] ELSE doc[k]]

\* An update that inserts the document when none has the identifier
UpdateOne_Upsert(docs, n, fields) ==
    IF n \in DOMAIN docs THEN [docs EXCEPT ![n] = SetFields(docs[n], fields)]
    ELSE (n :> fields) @@ docs

\* updateOne(query, {$set: fields}): the collection after the call; no
\* document is added when none has the identifier
UpdateOne(docs, n, fields) ==
    IF n \in DOMAIN docs THEN [docs EXCEPT ![n] = SetFields(docs[n], fields)]
    ELSE docs

\* The $set of the update handler: the sanitized fields and updatedAt
UpdateSet(sanitizedAccount, at) ==
    ("updatedAt" :> [t |-> "date", v |-> at]) @@ sanitizedAccount

\* A delete that finds the document and leaves it in place
Remaining_Keeps(docs, n) == docs

\* The documents left without number n (findOneAndDelete)
Remaining(docs, n) == [m \in DOMAIN docs \ {n} |-> docs[m]]

\* The counts updateOne reports
UpdateResult(docs, n, fields) ==
    IF n \notin DOMAIN docs THEN [matchedCount |-> 0, modifiedCount |-> 0]
    ELSE [matchedCount |-> 1,
          modifiedCount |-> IF SetFields(docs[n], fields) = docs[n] THEN 0 ELSE 1]

\* ------------------------------------------------------------ responses

Response(status, body) == [status |-> status, body |-> body]

ErrorBody(message) == [error |-> message]

InternalServerError == Response(500, ErrorBody("Internal server error"))

InvalidIdFormat == Response(400, ErrorBody("Invalid account ID format"))

AccountNotFound == Response(404, ErrorBody("Account not found"))

\* The catch block of the create and update handlers
CatchValidation(message) ==
    IF Includes(message, "required") \/ Includes(message, "invalid")
    THEN Response(400, ErrorBody(message))
    ELSE InternalServerError

\* The catch block of the list, get and delete handlers
CatchPlain(message) == InternalServerError

\* The branches of the update handler on the result of updateOne
UpdateResponse(result, sanitizedAccount) ==
    IF result.matchedCount # 0
    THEN Response(200, [message  |-> "Account updated successfully",
                        username |-> IF "username" \in DOMAIN sanitizedAccount
                                     THEN sanitizedAccount.username
                                     ELSE [t |-> "undefined", v |-> ""]])
    ELSE IF result.matchedCount = 0 THEN AccountNotFound
    ELSE Response(304, ErrorBody("No changes made to account"))

\* The delete handler when the driver's result is never null (a driver that
\* wraps the document in a result object)
DeleteResponse_NeverNull(found, id) ==
    Response(200, [message |-> "Account deleted successfully", deletedId |-> id])

\* The branches of the delete handler on the result of findOneAndDelete
DeleteResponse(found, id) ==
    IF found
    THEN Response(200, [message |-> "Account deleted successfully", deletedId |-> id])
    ELSE AccountNotFound

\* The message of the error new ObjectId(id) throws
BSONErrorMessage ==
    "input must be a 24 character hex string, 12 byte Uint8Array, or an integer"

\* Texts a failing store call can carry
StoreErrors == {"connection pool closed", "operation invalid: login required"}

\* ------------------------------------------------------------ request bodies

BodyAsh ==
    Object([username |-> Str("ash"), email |-> Str("a@b.co"), team |-> Str("mystic")])

\* Accepted, with every optional field, and changed by sanitization: the
\* apostrophe is escaped twice and the country is trimmed
BodyGary ==
    Object([username |-> Str("gary_1"), email |-> Str("o'k@b.co"),
            team |-> Str("valor"), country |-> Str(" US "),
            birthday |-> Str("1990-01-01"), level |-> Num("5")])

\* The update of the API documentation: a level and nothing else
BodyLevelOnly == Object([level |-> Num("45")])

BodyBadEmail ==
    Object([username |-> Str("ash"), email |-> Str("not-an-email"),
            team |-> Str("mystic")])

BodyBadUsername ==
    Object([username |-> Str("<b>ash</b>"), email |-> Str("a@b.co"),
            team |-> Str("mystic")])

BodyNoTeam == Object([username |-> Str("ash"), email |-> Str("a@b.co")])

BodyBadTeam ==
    Object([username |-> Str("ash"), email |-> Str("a@b.co"), team |-> Str("rocket")])

BodyLongUsername ==
    Object([username |-> Str("a123456789b123456789c123456789d123456789e1234567890"),
            email |-> Str("a@b.co"), team |-> Str("mystic")])

BodyBadCountry ==
    Object([username |-> Str("ash"), email |-> Str("a@b.co"), team |-> Str("mystic"),
            country |-> Str("U5A")])

BodyBadBirthday ==
    Object([username |-> Str("ash"), email |-> Str("a@b.co"), team |-> Str("mystic"),
            birthday |-> Str("01/02/1990")])

BodyLevelText ==
    Object([username |-> Str("ash"), email |-> Str("a@b.co"), team |-> Str("mystic"),
            level |-> Str("forty")])

BodyLevelLow ==
    Object([username |-> Str("ash"), email |-> Str("a@b.co"), team |-> Str("mystic"),
            level |-> Num("-3")])

BodyLevelHigh ==
    Object([username |-> Str("ash"), email |-> Str("a@b.co"), team |-> Str("mystic"),
            level |-> Num("200")])

\* A required field that is only spaces, and one that is the empty string
BodyBlankUsername ==
    Object([username |-> Str("   "), email |-> Str("a@b.co"), team |-> Str("mystic")])

BodyEmptyEmail ==
    Object([username |-> Str("ash"), email |-> Str(""), team |-> Str("mystic")])

\* No team, after an email that fails its own check
BodyBadEmailNoTeam ==
    Object([username |-> Str("ash"), email |-> Str("not-an-email")])

\* Three failing fields
BodyTwoBad ==
    Object([username |-> Str("<b>ash</b>"), email |-> Str("not-an-email"),
            team |-> Str("rocket")])

\* Scenario C of the specification: a level and nothing else
BodyLevel200Only == Object([level |-> Num("200")])

BodyLevelZero ==
    Object([username |-> Str("ash"), email |-> Str("a@b.co"), team |-> Str("mystic"),
            level |-> Num("0")])

BodyLevelFraction ==
    Object([username |-> Str("ash"), email |-> Str("a@b.co"), team |-> Str("mystic"),
            level |-> Num("1.5")])

\* Scenario E of the specification
BodyScript ==
    Object([username |-> Str("<script>alert(1)</script>"), email |-> Str("a@b.co"),
            team |-> Str("mystic")])

\* Values that trimming would make pass: the checks read them untrimmed
BodyPaddedUsername ==
    Object([username |-> Str(" ash "), email |-> Str("a@b.co"), team |-> Str("mystic")])

BodyPaddedTeam ==
    Object([username |-> Str("ash"), email |-> Str("a@b.co"), team |-> Str(" mystic ")])

\* A username that is a JSON number
BodyNumberUsername ==
    Object([username |-> Num("123"), email |-> Str("n@b.co"), team |-> Str("instinct")])

\* Keys the rule table does not name, an identifier among them
BodyExtraKeys ==
    Object([username |-> Str("ash"), email |-> Str("a@b.co"), team |-> Str("mystic"),
            _id |-> Str("aaaaaaaaaaaaaaaaaaaaaaaa"),
            id |-> Str("aaaaaaaaaaaaaaaaaaaaaaaa"),
            role |-> Str("admin"), updatedAt |-> Str("2000-01-01")])

\* The record of the first create, made from BodyGary, as a get returns it:
\* what the edit form of the client sends back in an update
BodyGaryFetched == Object(WithId(1, sanitizePogoAccount(BodyGary).account))

\* The bodies of the interleaved handlers
CoreBodies == {BodyAsh, BodyGary, BodyBadEmail}

\* The bodies of the handlers run one at a time
AllBodies ==
    CoreBodies \cup
    {NoBody, BodyLevelOnly, BodyBadUsername, BodyNoTeam, BodyBadTeam,
     BodyLongUsername, BodyBadCountry, BodyBadBirthday, BodyLevelText,
     BodyLevelLow, BodyLevelHigh}

\* The bodies of the handlers run one at a time on the cases of the rule
\* table: blank required fields, several failing fields, levels at and past
\* the limits, markup, and keys the table does not name
FormBodies ==
    {BodyAsh, BodyGary, BodyNoTeam, BodyLevelHigh, BodyBlankUsername,
     BodyEmptyEmail, BodyBadEmailNoTeam, BodyTwoBad, BodyLevel200Only,
     BodyLevelZero, BodyLevelFraction, BodyScript, BodyExtraKeys,
     BodyPaddedUsername, BodyPaddedTeam, BodyNumberUsername, BodyGaryFetched}

\* What validation makes of each body of the model, computed once
Validated == [body \in AllBodies \cup FormBodies |-> sanitizePogoAccount(body)]

\* ------------------------------------------------------------ state

VARIABLES
    store,     \* the collection: record number -> document
    nextId,    \* the number of the next record the store inserts
    now,       \* the clock, in milliseconds
    pc,        \* per handler: idle, the store call it awaits, or done
    req,       \* per handler: the request, [op, id, body]
    at,        \* per handler: the new Date() of an update
    ret,       \* per handler: what its last store call returned
    resp,      \* per handler: the response it sent
    calls,     \* per handler: the store calls it made (history)
    threw,     \* per handler: the text of the store error it met (history)
    mark,      \* per handler: nextId when its existence check ran (history)
    created,   \* record number -> the body of its create and the mark, for the
               \* records no update matched since (history)
    hits,      \* the limiter's count per client in the client's current window
    hdr,       \* per handler: the security headers set on its response
    who,       \* per handler: the client of its request (history)
    admitted,  \* per client: its requests the limiter let through in the
               \* current window (history)
    answers,   \* per handler: the number of responses it sent (history)
    wins,      \* record number -> the deletes of it answered 200 (history)
    late,      \* per handler: another delete removed the record of its id
               \* while its own findOneAndDelete was awaited (history)
    ui         \* the list component of the browser client

\* The state of the middleware in front of the handlers
gate == <<hits, hdr, who, admitted>>

vars == <<store, nextId, now, pc, req, at, ret, resp, calls, threw, mark, created,
          hits, hdr, who, admitted, answers, wins, late, ui>>

NoRequest == [op |-> "none", id |-> "", body |-> NoBody]

NoResponse == Response(0, <<>>)

NoReturn == [matchedCount |-> 0, modifiedCount |-> 0]

\* The clients the limiter tells apart: their addresses
Clients == {"10.0.0.1", "10.0.0.2"}

NoHeaders == <<>>

\* The list component before ngOnInit: no request issued, nothing clicked
UiStart ==
    [pc |-> "init", id |-> "", confirmed |-> FALSE, clicks |-> 0, refused |-> 0,
     deletes |-> 0, fetches |-> 0, alerts |-> 0]

Init ==
    /\ store = <<>>
    /\ nextId = 1
    /\ now = 0
    /\ pc = [i \in Slots |-> "idle"]
    /\ req = [i \in Slots |-> NoRequest]
    /\ at = [i \in Slots |-> 0]
    /\ ret = [i \in Slots |-> NoReturn]
    /\ resp = [i \in Slots |-> NoResponse]
    /\ calls = [i \in Slots |-> 0]
    /\ threw = [i \in Slots |-> ""]
    /\ mark = [i \in Slots |-> 0]
    /\ created = <<>>
    /\ hits = [c \in Clients |-> 0]
    /\ hdr = [i \in Slots |-> NoHeaders]
    /\ who = [i \in Slots |-> ""]
    /\ admitted = [c \in Clients |-> 0]
    /\ answers = [i \in Slots |-> 0]
    /\ wins = [n \in Ids |-> 0]
    /\ late = [i \in Slots |-> FALSE]
    /\ ui = UiStart

\* A response is delivered before anything else happens: delivery reads and
\* writes no shared state, so this orders steps without leaving any out.
NoneDone == \A j \in Slots : pc[j] # "done"

\* Creates that may still insert
PendingCreates == Cardinality({j \in Slots : pc[j] \in {"findOnePost", "insertOne"}})

\* A handler that ends without sending anything
Send_Never(i, response) ==
    /\ pc' = [pc EXCEPT ![i] = "ended"]
    /\ UNCHANGED <<resp, answers>>

\* The handler of slot i sends its response
Send(i, response) ==
    /\ pc' = [pc EXCEPT ![i] = "done"]
    /\ resp' = [resp EXCEPT ![i] = response]
    /\ answers' = [answers EXCEPT ![i] = @ + 1]

\* The handler of slot i makes a store call and awaits it
Await(i, call) ==
    /\ pc' = [pc EXCEPT ![i] = call]
    /\ calls' = [calls EXCEPT ![i] = @ + 1]
    /\ UNCHANGED answers

\* A request arrives and the free slot of the lowest number takes it (which
\* slot runs a handler makes no difference)
Arrive(i, op, id, body) ==
    /\ NoneDone
    /\ pc[i] = "idle"
    /\ \A j \in Slots : j < i => pc[j] # "idle"
    /\ req' = [req EXCEPT ![i] = [op |-> op, id |-> id, body |-> body]]

\* ------------------------------------------------------------ list

ListStart(i) ==
    /\ Arrive(i, "list", "", NoBody)
    /\ Await(i, "find")
    /\ UNCHANGED <<wins, late, store, nextId, now, at, ret, resp, threw, mark, created>>

FindReturns(i) ==
    /\ NoneDone
    /\ pc[i] = "find"
    /\ Send(i, Response(200, [accounts |-> FindAll(store)]))
    /\ UNCHANGED <<wins, late, store, nextId, now, req, at, ret, calls, threw, mark, created>>

\* ------------------------------------------------------------ get by id

\* The code of the get, update and delete handlers before their store call:
\* the identifier check, then new ObjectId(id).  The response it ends with, or
\* NoResponse when the handler goes on.
IdCheck(id, caught) ==
    IF ~isValidObjectId(id) THEN InvalidIdFormat
    ELSE IF ~ObjectIdIsValid(id) THEN caught
    ELSE NoResponse

GetStart(i, ids) ==
    \E id \in ids :
        /\ Arrive(i, "get", id, NoBody)
        /\ IF IdCheck(id, CatchPlain(BSONErrorMessage)).status # 0
           THEN /\ Send(i, IdCheck(id, CatchPlain(BSONErrorMessage)))
                /\ UNCHANGED calls
           ELSE /\ Await(i, "findOne")
                /\ UNCHANGED resp
        /\ UNCHANGED <<wins, late, store, nextId, now, at, ret, threw, mark, created>>

FindOneReturns(i) ==
    /\ NoneDone
    /\ pc[i] = "findOne"
    /\ LET n == IdNumber(req[i].id)
       IN  IF n \in DOMAIN store
           THEN /\ Send(i, Response(200, WithId(n, store[n])))
                /\ ret' = [ret EXCEPT ![i] = [matchedCount |-> 1, modifiedCount |-> 0]]
           ELSE /\ Send(i, AccountNotFound)
                /\ UNCHANGED ret
    /\ UNCHANGED <<wins, late, store, nextId, now, req, at, calls, threw, mark, created>>

\* ------------------------------------------------------------ create

\* The create handler up to its first await: validation, then the existence
\* check is issued.  A body that fails validation is answered by the catch block.
PostStart(i, bodies) ==
    \E body \in bodies :
        /\ nextId + PendingCreates <= MaxIds
        /\ Arrive(i, "post", "", body)
        /\ LET s == Validated[body]
           IN  IF s.ok
               THEN /\ Await(i, "findOnePost")
                    /\ UNCHANGED resp
               ELSE /\ Send(i, CatchValidation(s.message))
                    /\ UNCHANGED calls
        /\ UNCHANGED <<wins, late, store, nextId, now, at, ret, threw, mark, created>>

\* findOne({email}) returns: 409 when a document has the email, else insertOne
\* is issued
PostFindOneReturns(i) ==
    /\ NoneDone
    /\ pc[i] = "findOnePost"
    /\ mark' = [mark EXCEPT ![i] = nextId]
    /\ LET sanitizedAccount == Validated[req[i].body].account
           existingAccount  == WithEmail(store, sanitizedAccount.email)
       IN  IF existingAccount # {}
           THEN /\ Send(i, Response(409,
                        ErrorBody("Account with this email already exists")))
                /\ ret' = [ret EXCEPT ![i] = [matchedCount |-> 1, modifiedCount |-> 0]]
                /\ UNCHANGED calls
           ELSE /\ Await(i, "insertOne")
                /\ UNCHANGED <<resp, ret>>
    /\ UNCHANGED <<wins, late, store, nextId, now, req, at, threw, created>>

\* A create that stores the required fields only
InsertedDocument_RequiredOnly(sanitizedAccount) ==
    [k \in DOMAIN sanitizedAccount \cap {"username", "email", "team"} |->
        sanitizedAccount[k]]

\* The document insertOne stores
InsertedDocument(sanitizedAccount) == sanitizedAccount

\* insertOne returns: the document is in the store under a new identifier
InsertOneReturns(i) ==
    /\ NoneDone
    /\ pc[i] = "insertOne"
    /\ LET sanitizedAccount == Validated[req[i].body].account
           insertedId       == nextId
       IN  /\ store' = (insertedId :> InsertedDocument(sanitizedAccount)) @@ store
           /\ nextId' = nextId + 1
           /\ created' = (insertedId :> [body |-> req[i].body, mark |-> mark[i]])
                             @@ created
           /\ Send(i, Response(201, [message |-> "Account created successfully",
                                     id      |-> IdText(insertedId)]))
    /\ UNCHANGED <<now, req, at, ret, calls, threw, mark, wins, late>>

\* ------------------------------------------------------------ update

\* The update handler up to its await: the identifier check, validation, and
\* updateOne is issued with the time of the call
PutStart(i, ids, bodies) ==
    \E id \in ids, body \in bodies :
        /\ Arrive(i, "put", id, body)
        /\ LET s       == Validated[body]
               early   == IF ~isValidObjectId(id) THEN InvalidIdFormat
                          ELSE IF ~s.ok THEN CatchValidation(s.message)
                          ELSE IdCheck(id, CatchValidation(BSONErrorMessage))
           IN  IF early.status # 0
               THEN /\ Send(i, early)
                    /\ UNCHANGED <<calls, at>>
               ELSE /\ Await(i, "updateOne")
                    /\ at' = [at EXCEPT ![i] = now]
                    /\ UNCHANGED resp
        /\ UNCHANGED <<wins, late, store, nextId, now, ret, threw, mark, created>>

UpdateOneReturns(i) ==
    /\ NoneDone
    /\ pc[i] = "updateOne"
    /\ LET sanitizedAccount == Validated[req[i].body].account
           n                == IdNumber(req[i].id)
           fields           == UpdateSet(sanitizedAccount, at[i])
           result           == UpdateResult(store, n, fields)
       IN  /\ store' = UpdateOne(store, n, fields)
           /\ created' = Remaining(created, n)
           /\ ret' = [ret EXCEPT ![i] = result]
           /\ Send(i, UpdateResponse(result, sanitizedAccount))
    /\ UNCHANGED <<nextId, now, req, at, calls, threw, mark, wins, late>>

\* ------------------------------------------------------------ delete

DeleteStart(i, ids) ==
    \E id \in ids :
        /\ Arrive(i, "delete", id, NoBody)
        /\ IF IdCheck(id, CatchPlain(BSONErrorMessage)).status # 0
           THEN /\ Send(i, IdCheck(id, CatchPlain(BSONErrorMessage)))
                /\ UNCHANGED calls
           ELSE /\ Await(i, "findOneAndDelete")
                /\ UNCHANGED resp
        /\ UNCHANGED <<wins, late, store, nextId, now, at, ret, threw, mark, created>>

FindOneAndDeleteReturns(i) ==
    /\ NoneDone
    /\ pc[i] = "findOneAndDelete"
    /\ LET n     == IdNumber(req[i].id)
           found == n \in DOMAIN store
       IN  /\ store' = IF found THEN Remaining(store, n) ELSE store
           /\ created' = Remaining(created, n)
           /\ ret' = [ret EXCEPT ![i] =
                        [matchedCount |-> IF found THEN 1 ELSE 0, modifiedCount |-> 0]]
           /\ wins' = IF found THEN [wins EXCEPT ![n] = @ + 1] ELSE wins
           /\ late' = [j \in Slots |->
                        IF j = i THEN late[i]
                        ELSE \/ late[j]
                             \/ /\ found
                                /\ pc[j] = "findOneAndDelete"
                                /\ req[j].id = req[i].id]
           /\ Send(i, DeleteResponse(found, req[i].id))
    /\ UNCHANGED <<nextId, now, req, at, calls, threw, mark>>

\* ------------------------------------------------------------ store failures

StoreCalls == {"find", "findOne", "findOnePost", "insertOne", "updateOne",
               "findOneAndDelete"}

\* The response of the handler's catch block to an error with this message
Caught(op, message) ==
    IF op \in {"post", "put"} THEN CatchValidation(message) ELSE CatchPlain(message)

\* The store call a handler awaits throws: its catch block answers
StoreThrows(i) ==
    \E text \in StoreErrors :
        /\ NoneDone
        /\ pc[i] \in StoreCalls
        /\ threw' = [threw EXCEPT ![i] = text]
        /\ Send(i, Caught(req[i].op, text))
        /\ UNCHANGED <<wins, late, store, nextId, now, req, at, ret, calls, mark, created>>

\* ------------------------------------------------------------ the rest

\* The response is delivered and the handler is gone
Close(i) ==
    /\ pc[i] = "done"
    /\ pc' = [pc EXCEPT ![i] = "idle"]
    /\ req' = [req EXCEPT ![i] = NoRequest]
    /\ at' = [at EXCEPT ![i] = 0]
    /\ ret' = [ret EXCEPT ![i] = NoReturn]
    /\ resp' = [resp EXCEPT ![i] = NoResponse]
    /\ calls' = [calls EXCEPT ![i] = 0]
    /\ threw' = [threw EXCEPT ![i] = ""]
    /\ mark' = [mark EXCEPT ![i] = 0]
    /\ answers' = [answers EXCEPT ![i] = 0]
    /\ late' = [late EXCEPT ![i] = FALSE]
    /\ UNCHANGED <<wins, store, nextId, now, created>>

\* A millisecond passes
Tick ==
    /\ NoneDone
    /\ now < MaxClock
    /\ now' = now + 1
    /\ UNCHANGED <<store, nextId, pc, req, at, ret, resp, calls, threw, mark,
                   created, answers, wins, late>>

\* A store call of slot i returns
Returns(i) ==
    \/ FindReturns(i)
    \/ FindOneReturns(i)
    \/ PostFindOneReturns(i)
    \/ InsertOneReturns(i)
    \/ UpdateOneReturns(i)
    \/ FindOneAndDeleteReturns(i)

\* Handlers interleave at their awaits, all within one millisecond.  The
\* requests are those the middleware in front of the handlers lets through.
Next ==
    \E i \in Slots :
        \/ ListStart(i) /\ UNCHANGED <<gate, ui>>
        \/ GetStart(i, CoreIds) /\ UNCHANGED <<gate, ui>>
        \/ PostStart(i, CoreBodies) /\ UNCHANGED <<gate, ui>>
        \/ PutStart(i, CoreIds, CoreBodies) /\ UNCHANGED <<gate, ui>>
        \/ DeleteStart(i, CoreIds) /\ UNCHANGED <<gate, ui>>
        \/ FindReturns(i) /\ UNCHANGED <<gate, ui>>
        \/ FindOneReturns(i) /\ UNCHANGED <<gate, ui>>
        \/ PostFindOneReturns(i) /\ UNCHANGED <<gate, ui>>
        \/ InsertOneReturns(i) /\ UNCHANGED <<gate, ui>>
        \/ UpdateOneReturns(i) /\ UNCHANGED <<gate, ui>>
        \/ FindOneAndDeleteReturns(i) /\ UNCHANGED <<gate, ui>>
        \/ StoreThrows(i) /\ UNCHANGED <<gate, ui>>
        \/ Close(i) /\ UNCHANGED <<gate, ui>>

Spec == Init /\ [][Next]_vars

\* The store call of slot i ends: it returns or it throws
Completes(i) == (Returns(i) \/ StoreThrows(i)) /\ UNCHANGED <<gate, ui>>

\* The interleaved handlers when every store call ends and every response is
\* delivered.  A call is held back only while a response is being delivered,
\* which happens again and again when other requests keep coming; the fairness
\* is strong so that the call still ends.
LiveSpec ==
    /\ Init
    /\ [][Next]_vars
    /\ \A i \in Slots : SF_vars(Completes(i))
    /\ \A i \in Slots : WF_vars(Close(i) /\ UNCHANGED <<gate, ui>>)

\* One request at a time: only the first slot runs a handler, so a request
\* arrives only when no handler is running

SeqNext ==
    \/ ListStart(1) /\ UNCHANGED <<gate, ui>>
    \/ GetStart(1, PathIds) /\ UNCHANGED <<gate, ui>>
    \/ PostStart(1, AllBodies) /\ UNCHANGED <<gate, ui>>
    \/ PutStart(1, PathIds, AllBodies) /\ UNCHANGED <<gate, ui>>
    \/ DeleteStart(1, PathIds) /\ UNCHANGED <<gate, ui>>
    \/ FindReturns(1) /\ UNCHANGED <<gate, ui>>
    \/ FindOneReturns(1) /\ UNCHANGED <<gate, ui>>
    \/ PostFindOneReturns(1) /\ UNCHANGED <<gate, ui>>
    \/ InsertOneReturns(1) /\ UNCHANGED <<gate, ui>>
    \/ UpdateOneReturns(1) /\ UNCHANGED <<gate, ui>>
    \/ FindOneAndDeleteReturns(1) /\ UNCHANGED <<gate, ui>>
    \/ StoreThrows(1) /\ UNCHANGED <<gate, ui>>
    \/ Close(1) /\ UNCHANGED <<gate, ui>>
    \/ Tick /\ UNCHANGED <<gate, ui>>

SeqSpec == Init /\ [][SeqNext]_vars

\* One request at a time, with the bodies that exercise the rule table

FormNext ==
    \/ ListStart(1) /\ UNCHANGED <<gate, ui>>
    \/ GetStart(1, CoreIds) /\ UNCHANGED <<gate, ui>>
    \/ PostStart(1, FormBodies) /\ UNCHANGED <<gate, ui>>
    \/ PutStart(1, CoreIds, FormBodies) /\ UNCHANGED <<gate, ui>>
    \/ DeleteStart(1, CoreIds) /\ UNCHANGED <<gate, ui>>
    \/ FindReturns(1) /\ UNCHANGED <<gate, ui>>
    \/ FindOneReturns(1) /\ UNCHANGED <<gate, ui>>
    \/ PostFindOneReturns(1) /\ UNCHANGED <<gate, ui>>
    \/ InsertOneReturns(1) /\ UNCHANGED <<gate, ui>>
    \/ UpdateOneReturns(1) /\ UNCHANGED <<gate, ui>>
    \/ FindOneAndDeleteReturns(1) /\ UNCHANGED <<gate, ui>>
    \/ StoreThrows(1) /\ UNCHANGED <<gate, ui>>
    \/ Close(1) /\ UNCHANGED <<gate, ui>>

FormSpec == Init /\ [][FormNext]_vars

\* ------------------------------------------------------------ a large collection

\* The largest collection the service starts on
MaxStored == 102

\* The sizes of the collection the service starts on: empty, and around the
\* limit of the list
StoredAtStart == {0, ListLimit - 1, ListLimit, ListLimit + 1, MaxStored}

\* The n-th document of a collection filled by earlier creates
SeedDocument(n) ==
    [username |-> Str("user" \o DecimalText(n)),
     email    |-> Str("u" \o DecimalText(n) \o "@b.co"),
     team     |-> Str("mystic")]

\* The service starts on a collection that earlier runs filled
ListInit ==
    /\ \E k \in StoredAtStart :
          /\ store = [n \in 1..k |-> SeedDocument(n)]
          /\ nextId = k + 1
    /\ now = 0
    /\ pc = [i \in Slots |-> "idle"]
    /\ req = [i \in Slots |-> NoRequest]
    /\ at = [i \in Slots |-> 0]
    /\ ret = [i \in Slots |-> NoReturn]
    /\ resp = [i \in Slots |-> NoResponse]
    /\ calls = [i \in Slots |-> 0]
    /\ threw = [i \in Slots |-> ""]
    /\ mark = [i \in Slots |-> 0]
    /\ created = <<>>
    /\ hits = [c \in Clients |-> 0]
    /\ hdr = [i \in Slots |-> NoHeaders]
    /\ who = [i \in Slots |-> ""]
    /\ admitted = [c \in Clients |-> 0]
    /\ answers = [i \in Slots |-> 0]
    /\ wins = [n \in Ids |-> 0]
    /\ late = [i \in Slots |-> FALSE]
    /\ ui = UiStart

\* Lists and deletes, one request at a time
ListNext ==
    \/ ListStart(1) /\ UNCHANGED <<gate, ui>>
    \/ DeleteStart(1, CoreIds) /\ UNCHANGED <<gate, ui>>
    \/ FindReturns(1) /\ UNCHANGED <<gate, ui>>
    \/ FindOneAndDeleteReturns(1) /\ UNCHANGED <<gate, ui>>
    \/ StoreThrows(1) /\ UNCHANGED <<gate, ui>>
    \/ Close(1) /\ UNCHANGED <<gate, ui>>

ListSpec == ListInit /\ [][ListNext]_vars

\* ------------------------------------------------------------ the list component

\* The clicks on Delete the model follows
MaxClicks == 3

\* What a row hands to deletePogoAccount: pogoAccount._id || ''
UiIds == {"", ShortId, LongId, NotHexId} \cup {IdText(n) : n \in Ids}

\* A pre-check that only refuses the empty id
IdPreCheck_NonEmpty(id) == id # ""

\* The pre-check of deletePogoAccount: a string that is not empty, of length 24
IdPreCheck(id) == id # "" /\ Len(id) = 24

\* What HttpClient hands to next: a status from 200 to 299
HttpOk(status) == status \in 200..299

\* ngOnInit: the list is fetched
UiNgOnInit ==
    /\ ui.pc = "init"
    /\ ui' = [ui EXCEPT !.pc = "fetchSent", !.fetches = @ + 1]
    /\ UNCHANGED <<store, nextId, now, pc, req, at, ret, resp, calls, threw, mark,
                   created, gate, answers, wins, late>>

\* deletePogoAccount(id): a click on Delete, with the answer the user gives
\* to the confirmation when it is asked.  (A click is followed to its end
\* before the next one.)
UiDeletePogoAccount ==
    \E id \in UiIds, confirmed \in BOOLEAN :
        /\ ui.pc = "ready"
        /\ ui.clicks < MaxClicks
        /\ ui' = IF ~IdPreCheck(id)
                 THEN [ui EXCEPT !.id = id, !.confirmed = confirmed,
                                 !.clicks = @ + 1, !.refused = @ + 1]
                 ELSE IF ~confirmed
                 THEN [ui EXCEPT !.id = id, !.confirmed = confirmed,
                                 !.clicks = @ + 1]
                 ELSE [ui EXCEPT !.id = id, !.confirmed = confirmed,
                                 !.clicks = @ + 1, !.deletes = @ + 1,
                                 !.pc = "deleteSent"]
        /\ UNCHANGED <<store, nextId, now, pc, req, at, ret, resp, calls, threw,
                       mark, created, gate, answers, wins, late>>

\* The delete request of the component reaches its handler
UiDeleteArrives ==
    /\ ui.pc = "deleteSent"
    /\ DeleteStart(1, {ui.id})
    /\ ui' = [ui EXCEPT !.pc = "deleteAtServer"]
    /\ UNCHANGED gate

\* The delete request fails before any response (the server is not reached):
\* the error callback alerts
UiDeleteFails ==
    /\ ui.pc = "deleteSent"
    /\ ui' = [ui EXCEPT !.pc = "ready", !.alerts = @ + 1]
    /\ UNCHANGED <<store, nextId, now, pc, req, at, ret, resp, calls, threw, mark,
                   created, gate, answers, wins, late>>

\* The response to the delete reaches the component: next fetches the list
\* again, error alerts
UiDeleteAnswered ==
    /\ ui.pc = "deleteAtServer"
    /\ Close(1)
    /\ ui' = IF HttpOk(resp[1].status)
             THEN [ui EXCEPT !.pc = "fetchSent", !.fetches = @ + 1]
             ELSE [ui EXCEPT !.pc = "ready", !.alerts = @ + 1]
    /\ UNCHANGED gate

\* The list request of the component reaches its handler
UiFetchArrives ==
    /\ ui.pc = "fetchSent"
    /\ ListStart(1)
    /\ ui' = [ui EXCEPT !.pc = "fetchAtServer"]
    /\ UNCHANGED gate

\* The response to the list request reaches the component
UiFetchAnswered ==
    /\ ui.pc = "fetchAtServer"
    /\ Close(1)
    /\ ui' = [ui EXCEPT !.pc = "ready"]
    /\ UNCHANGED gate

\* The response to a create of another client is delivered
UiOtherClose ==
    /\ req[1].op = "post"
    /\ Close(1)
    /\ UNCHANGED <<gate, ui>>

\* The component in front of the service, with creates of other clients
UiNext ==
    \/ UiNgOnInit
    \/ UiDeletePogoAccount
    \/ UiDeleteArrives
    \/ UiDeleteFails
    \/ UiDeleteAnswered
    \/ UiFetchArrives
    \/ UiFetchAnswered
    \/ UiOtherClose
    \/ PostStart(1, {BodyAsh, BodyGary}) /\ UNCHANGED <<gate, ui>>
    \/ PostFindOneReturns(1) /\ UNCHANGED <<gate, ui>>
    \/ InsertOneReturns(1) /\ UNCHANGED <<gate, ui>>
    \/ FindReturns(1) /\ UNCHANGED <<gate, ui>>
    \/ FindOneAndDeleteReturns(1) /\ UNCHANGED <<gate, ui>>
    \/ StoreThrows(1) /\ UNCHANGED <<gate, ui>>

UiSpec == Init /\ [][UiNext]_vars

\* ------------------------------------------------------------ the middleware chain

\* max of the limiter: the requests of one client it lets through in a window
RateMax == 50

\* The highest count the limiter reaches in the model
MaxHits == 52

\* res.setHeader: the headers named in set replace those of the response
SetHeaders(headers, set) ==
    [k \in DOMAIN headers \cup DOMAIN set |->
        IF k \in DOMAIN set THEN set[k] ELSE headers[k]]

\* What helmet, first in the chain of server.ts, sets of the four headers:
\* its defaults, and the content security policy of its configuration
HelmetHeaders ==
    ("X-Content-Type-Options" :> "nosniff") @@
    ("X-Frame-Options" :> "SAMEORIGIN") @@
    ("X-XSS-Protection" :> "0") @@
    ("Content-Security-Policy" :>
        "default-src 'self';style-src 'self' 'unsafe-inline' https://cdn.jsdelivr.net;script-src 'self' https://cdn.jsdelivr.net;img-src 'self' data: https:")

\* What the middleware of the router sets, after the limiter
SecurityHeaders ==
    ("X-Content-Type-Options" :> "nosniff") @@
    ("X-Frame-Options" :> "DENY") @@
    ("X-XSS-Protection" :> "1; mode=block") @@
    ("Content-Security-Policy" :> "default-src 'self'")

\* The limiter's answer: its message is a string, which res.send writes as
\* text, not as JSON
TooManyRequests ==
    Response(429, [text |-> "Too many requests from this IP, please try again later."])

EndpointNotFound == Response(404, ErrorBody("Endpoint not found"))

\* A limiter that lets one request more through
OverLimit_OffByOne(totalHits) == totalHits > RateMax + 1

\* The limiter's test on the count that includes the request
OverLimit(totalHits) == totalHits > RateMax

\* The paths and bodies of the requests that pass through the whole chain
AppIds == {IdText(1), ShortId}

AppBodies == {BodyAsh, BodyBadEmail}

\* The requests to the account routes
AppRequests ==
    {[op |-> "list", id |-> "", body |-> NoBody]}
    \cup {[op |-> op, id |-> id, body |-> NoBody] :
             op \in {"get", "delete"}, id \in AppIds}
    \cup {[op |-> "post", id |-> "", body |-> body] : body \in AppBodies}
    \cup {[op |-> "put", id |-> id, body |-> body] : id \in AppIds, body \in AppBodies}

\* The limiter counts a request of client c, taken by slot i
Counted(i, c) ==
    /\ hits[c] < MaxHits
    /\ hits' = [hits EXCEPT ![c] = @ + 1]
    /\ who' = [who EXCEPT ![i] = c]
    /\ UNCHANGED ui

\* A request of client c passes helmet and the limiter, and the router sets
\* its security headers before the handler runs
Through(i, c) ==
    /\ Counted(i, c)
    /\ ~OverLimit(hits[c] + 1)
    /\ admitted' = [admitted EXCEPT ![c] = @ + 1]
    /\ hdr' = [hdr EXCEPT ![i] = SetHeaders(HelmetHeaders, SecurityHeaders)]

\* A request of client c over the limit: the limiter answers and the chain
\* ends there, before the security headers and the handler
Limited(i, c) ==
    \E r \in AppRequests :
        /\ Counted(i, c)
        /\ OverLimit(hits[c] + 1)
        /\ Arrive(i, r.op, r.id, r.body)
        /\ Send(i, TooManyRequests)
        /\ hdr' = [hdr EXCEPT ![i] = HelmetHeaders]
        /\ UNCHANGED <<admitted, store, nextId, now, at, ret, calls, threw, mark,
                       created, wins, late>>

\* A request the application answers outside the router: only helmet has set
\* headers, and the limiter does not see it
Outside(i, c, op, response) ==
    /\ Arrive(i, op, "", NoBody)
    /\ Send(i, response)
    /\ hdr' = [hdr EXCEPT ![i] = HelmetHeaders]
    /\ who' = [who EXCEPT ![i] = c]
    /\ UNCHANGED <<hits, admitted, store, nextId, now, at, ret, calls, threw, mark,
                   created, wins, late, ui>>

\* GET /health
Health(i, c) ==
    Outside(i, c, "health",
            Response(200, [status |-> "OK", timestamp |-> [t |-> "date", v |-> now]]))

\* A path no route matches
Unmatched(i, c) == Outside(i, c, "unmatched", EndpointNotFound)

\* A body express.json cannot parse: the global error handler answers
MalformedJson(i, c) == Outside(i, c, "malformed", InternalServerError)

\* The window of client c ends: the limiter forgets its count
WindowEnds(c) ==
    /\ NoneDone
    /\ hits[c] > 0
    /\ hits' = [hits EXCEPT ![c] = 0]
    /\ admitted' = [admitted EXCEPT ![c] = 0]
    /\ UNCHANGED <<store, nextId, now, pc, req, at, ret, resp, calls, threw, mark,
                   created, hdr, who, answers, wins, late, ui>>

\* The response is delivered with its headers
AppClose(i) ==
    /\ Close(i)
    /\ hdr' = [hdr EXCEPT ![i] = NoHeaders]
    /\ who' = [who EXCEPT ![i] = ""]
    /\ UNCHANGED <<hits, admitted, ui>>

\* One request at a time through the whole chain of server.ts
AppNext ==
    \/ \E c \in Clients :
          \/ Through(1, c) /\ ListStart(1)
          \/ Through(1, c) /\ GetStart(1, AppIds)
          \/ Through(1, c) /\ PostStart(1, AppBodies)
          \/ Through(1, c) /\ PutStart(1, AppIds, AppBodies)
          \/ Through(1, c) /\ DeleteStart(1, AppIds)
          \/ Limited(1, c)
          \/ Health(1, c)
          \/ Unmatched(1, c)
          \/ MalformedJson(1, c)
          \/ WindowEnds(c)
    \/ FindReturns(1) /\ UNCHANGED <<gate, ui>>
    \/ FindOneReturns(1) /\ UNCHANGED <<gate, ui>>
    \/ PostFindOneReturns(1) /\ UNCHANGED <<gate, ui>>
    \/ InsertOneReturns(1) /\ UNCHANGED <<gate, ui>>
    \/ UpdateOneReturns(1) /\ UNCHANGED <<gate, ui>>
    \/ FindOneAndDeleteReturns(1) /\ UNCHANGED <<gate, ui>>
    \/ StoreThrows(1) /\ UNCHANGED <<gate, ui>>
    \/ AppClose(1)

AppSpec == Init /\ [][AppNext]_vars

\* ------------------------------------------------------------ claims

Done(i) == pc[i] = "done"

\* The store call of slot i returned in this step (it did not throw)
Returned(i, call) == pc[i] = call /\ pc'[i] # call /\ threw'[i] = ""

\* C1: every rejection of the validation layer, on create and on update with
\* a well-formed id, is answered 400 with the message of the rejection.
C1_RejectionsAnswered400 ==
    \A i \in Slots :
        (/\ Done(i)
         /\ req[i].op \in {"post", "put"}
         /\ req[i].op = "put" => isValidObjectId(req[i].id)
         /\ ~Validated[req[i].body].ok)
        => resp[i] = Response(400, ErrorBody(Validated[req[i].body].message))

\* C2: with requests handled one at a time, no two records of the store have
\* the same email.
C2_EmailsUnique ==
    \A m, n \in DOMAIN store : m # n => store[m].email # store[n].email

\* C3: two records that no update has touched share an email only when their
\* creates raced: the later insert belongs to a create whose existence check
\* ran before the earlier record was inserted.
C3_DuplicatesOnlyByRace ==
    \A a, b \in DOMAIN created :
        (a < b /\ store[a].email = store[b].email) => created[b].mark <= a

\* C3 witness: a create has just been answered 201, and its record shares its
\* email with the record of another create; both checks ran before either insert.
C3_RaceReached ==
    \E i \in Slots, a, b \in DOMAIN created :
        /\ Done(i) /\ req[i].op = "post" /\ resp[i].status = 201
        /\ resp[i].body.id = IdText(b)
        /\ a < b
        /\ store[a].email = store[b].email
        /\ created[a].mark <= a /\ created[b].mark <= a

\* The bodies that hold a subset of the record fields, each of them valid
PartialBodies == {BodyLevelOnly, BodyNoTeam}

\* C4: an update of an existing record whose body holds only some of the
\* fields passes validation and is answered 200.
C4_PartialUpdateAccepted ==
    \A i \in Slots :
        (/\ Done(i)
         /\ req[i].op = "put"
         /\ req[i].body \in PartialBodies
         /\ IdNumber(req[i].id) \in DOMAIN store
         /\ threw[i] = "")
        => resp[i].status = 200

\* C5: an update is answered by the counts the store reports: 404 when no
\* record matched, 304 when one matched and nothing changed, 200 when one
\* matched and was modified.
C5_UpdateAnsweredByCounts ==
    \A i \in Slots :
        (Done(i) /\ req[i].op = "put" /\ calls[i] = 1 /\ threw[i] = "")
        => resp[i].status = IF ret[i].matchedCount = 0 THEN 404
                            ELSE IF ret[i].modifiedCount = 0 THEN 304
                            ELSE 200

\* C6: a handler whose store call failed answers 500 with the fixed body,
\* whatever the text of the store error.
C6_StoreErrorsAnswered500 ==
    \A i \in Slots : (Done(i) /\ threw[i] # "") => resp[i] = InternalServerError

\* C7: a get, update or delete whose id is not 24 characters, or not one the
\* store's parser accepts, is answered 400 and makes no store call, whatever
\* the body of the update.
C7_MalformedIdRejected ==
    \A i \in Slots :
        (/\ req[i].op \in {"get", "put", "delete"}
         /\ (Len(req[i].id) # 24 \/ ~ObjectIdIsValid(req[i].id)))
        => /\ Done(i)
           /\ resp[i] = InvalidIdFormat
           /\ calls[i] = 0

\* C7 witness: an update with a malformed id and a body that passes validation
\* has been answered.
C7_MalformedUpdateAnswered ==
    \E i \in Slots :
        /\ Done(i) /\ req[i].op = "put"
        /\ req[i].id = NotHexId /\ req[i].body = BodyGary
        /\ resp[i].status = 400 /\ calls[i] = 0

\* C8: with requests handled one at a time, when the existence check of a
\* create returns and a record of the store has the sanitized email, the create
\* is answered 409, makes no insert and leaves the store as it was.
C8_DuplicateCreateRejected ==
    [][\A i \in Slots :
          (/\ Returned(i, "findOnePost")
           /\ \E n \in DOMAIN store :
                 store[n].email = Validated[req[i].body].account.email)
          => /\ Done(i)'
             /\ resp'[i].status = 409
             /\ calls'[i] = 1
             /\ store' = store /\ nextId' = nextId]_vars

\* C8 witness: a create is answered 409 while exactly one record, that of an
\* earlier create of the same body, has its email.
C8_SecondCreateAnswered409 ==
    \E i \in Slots, n \in DOMAIN created :
        /\ Done(i) /\ req[i].op = "post" /\ resp[i].status = 409
        /\ created[n].body = req[i].body
        /\ \A m \in DOMAIN store :
              store[m].email = Validated[req[i].body].account.email <=> m = n

\* C9: a create answered 201 returns an id of 24 characters, and a get of a
\* record that no update or delete has touched since its create is answered
\* 200 with the sanitized form of the body that was sent, under that id.
C9_RoundTrip ==
    \A i \in Slots :
        /\ (Done(i) /\ req[i].op = "post" /\ resp[i].status = 201)
           => Len(resp[i].body.id) = 24 /\ IdNumber(resp[i].body.id) \in DOMAIN store
        /\ (/\ Done(i) /\ req[i].op = "get" /\ threw[i] = ""
            /\ IdNumber(req[i].id) \in DOMAIN created)
           => resp[i] = Response(200,
                  WithId(IdNumber(req[i].id),
                         Validated[created[IdNumber(req[i].id)].body].account))

\* C9 witness: the record created from a body with an apostrophe and a padded
\* country is fetched: trimmed, and escaped twice.
C9_FetchedSanitized ==
    \E i \in Slots :
        /\ Done(i) /\ req[i].op = "get" /\ resp[i].status = 200
        /\ IdNumber(req[i].id) \in DOMAIN created
        /\ created[IdNumber(req[i].id)].body = BodyGary
        /\ resp[i].body =
              [_id      |-> Str(req[i].id),
               username |-> Str("gary_1"),
               email    |-> Str("o&amp;#x27;k@b.co"),
               team     |-> Str("valor"),
               country  |-> Str("US"),
               birthday |-> Str("1990-01-01"),
               level    |-> Num("5")]

\* C10: when findOneAndDelete returns for an id that is in the store, the
\* delete is answered 200 with that id as deletedId and exactly that record is
\* gone; for an id that is not in the store it is answered 404; and a record
\* that is gone stays gone, so a second delete of the id is answered 404.
C10_DeleteThenNotFound ==
    [][/\ \A i \in Slots :
             Returned(i, "findOneAndDelete") =>
                LET n == IdNumber(req[i].id)
                IN  IF n \in DOMAIN store
                    THEN /\ resp'[i] = Response(200,
                                [message   |-> "Account deleted successfully",
                                 deletedId |-> req[i].id])
                         /\ store' = [m \in DOMAIN store \ {n} |-> store[m]]
                    ELSE /\ resp'[i] = AccountNotFound
                         /\ store' = store
       /\ \A n \in Ids : (n < nextId /\ n \notin DOMAIN store) => n \notin DOMAIN store']_vars

\* C10 witness: a delete of an id the store once assigned, whose record an
\* earlier delete removed, is answered 404.
C10_SecondDeleteAnswered404 ==
    \E i \in Slots :
        /\ Done(i) /\ req[i].op = "delete" /\ threw[i] = ""
        /\ IdNumber(req[i].id) \in 1..(nextId - 1)
        /\ IdNumber(req[i].id) \notin DOMAIN store
        /\ ret[i].matchedCount = 0
        /\ resp[i].status = 404

\* C11: when findOneAndDelete returns for a well-formed id that no record of
\* the store has, the delete is answered 404 with the not-found body, not 200,
\* and the store is left as it was.
C11_DeleteOfMissingIs404 ==
    [][\A i \in Slots :
          (/\ Returned(i, "findOneAndDelete")
           /\ isValidObjectId(req[i].id)
           /\ \A n \in DOMAIN store : IdText(n) # req[i].id)
          => /\ Done(i)'
             /\ resp'[i] = AccountNotFound
             /\ resp'[i].status # 200
             /\ store' = store]_vars

\* C11 witness: a delete of a well-formed id the store has not assigned yet is
\* answered 404 while the store holds another record.
C11_DeleteOfUnassignedAnswered404 ==
    \E i \in Slots :
        /\ Done(i) /\ req[i].op = "delete" /\ threw[i] = ""
        /\ isValidObjectId(req[i].id)
        /\ \E n \in Ids : n >= nextId /\ IdText(n) = req[i].id
        /\ store # <<>>
        /\ resp[i].status = 404

\* A field of the body that is absent, empty or only spaces
Blank(members, field) ==
    \/ field \notin DOMAIN members
    \/ IsString(members[field]) /\ trim(members[field].v) = ""

\* The first required field of the body that is blank, in the order of the
\* rule table (the empty text when none is)
FirstBlank(members) ==
    IF Blank(members, "username") THEN "username"
    ELSE IF Blank(members, "email") THEN "email"
    ELSE IF Blank(members, "team") THEN "team"
    ELSE ""

\* C12: a create, or an update with a well-formed id, whose body lacks
\* username, email or team (absent, empty or only spaces) is answered 400 with
\* a message that names the first such field in the order username, email, team.
C12_MissingFieldNamed ==
    \A i \in Slots :
        (/\ Done(i)
         /\ req[i].op \in {"post", "put"}
         /\ req[i].op = "put" => isValidObjectId(req[i].id)
         /\ req[i].body.isObject
         /\ FirstBlank(req[i].body.members) # "")
        => /\ resp[i].status = 400
           /\ Includes(resp[i].body.error, FirstBlank(req[i].body.members))

\* The body carries a level that is a number above the maximum of the rule table
LevelAboveMax(body) ==
    /\ body.isObject
    /\ "level" \in DOMAIN body.members
    /\ isNumeric(toString(body.members.level))
    /\ GreaterThan(parseFloat(toString(body.members.level)), allowedFields.level.max)

\* C13: an update of a stored record whose body carries a level above 50,
\* the body {level: 200} included, is answered 400 with an error that names
\* level, and makes no store call, so the record is not changed.
C13_LevelAboveMaxRejected ==
    \A i \in Slots :
        (/\ Done(i)
         /\ req[i].op = "put"
         /\ IdNumber(req[i].id) \in DOMAIN store
         /\ LevelAboveMax(req[i].body))
        => /\ resp[i].status = 400
           /\ Includes(resp[i].body.error, "level")
           /\ calls[i] = 0

\* A JSON number that is whole and within the limits of the rule table
WholeInRange(value) ==
    /\ value.t = "num"
    /\ Len(value.v) > 0 /\ AllChars(value.v, Digit)
    /\ NatOf(value.v) >= allowedFields.level.min
    /\ NatOf(value.v) <= allowedFields.level.max

\* The body carries a level that is not such a number
LevelOutOfRange(body) ==
    /\ body.isObject
    /\ "level" \in DOMAIN body.members
    /\ ~WholeInRange(body.members.level)

\* C14: every record of the store that has a level holds a whole number from
\* 1 to 50, and no create or update whose body carries a level that is 0,
\* negative, above 50 or not whole is answered 201 or 200.
C14_LevelsWholeInRange ==
    /\ \A n \in DOMAIN store :
          "level" \in DOMAIN store[n] => WholeInRange(store[n].level)
    /\ \A i \in Slots :
          (Done(i) /\ req[i].op \in {"post", "put"} /\ LevelOutOfRange(req[i].body))
          => resp[i].status \notin {200, 201}

Markup == {"<", ">", "\"", "'"}

HasMarkup(text) == \E k \in 1..Len(text) : CharAt(text, k) \in Markup

\* No string member of the document holds a markup character
NoRawMarkup(doc) ==
    \A k \in DOMAIN doc : doc[k].t = "str" => ~HasMarkup(doc[k].v)

\* The body carries a username that is a string with a markup character
MarkupUsername(body) ==
    /\ body.isObject
    /\ "username" \in DOMAIN body.members
    /\ IsString(body.members.username)
    /\ HasMarkup(body.members.username.v)

\* C15 as stated: no stored string holds raw markup, and a create whose
\* username holds markup is accepted and stores the username in escaped form.
C15_MarkupUsernameStoredEscaped ==
    /\ \A n \in DOMAIN store : NoRawMarkup(store[n])
    /\ \A i \in Slots :
          (Done(i) /\ req[i].op = "post" /\ MarkupUsername(req[i].body))
          => /\ resp[i].status = 201
             /\ \E n \in DOMAIN store :
                   store[n].username.v =
                       escapeHtml(validatorEscape(trim(req[i].body.members.username.v)))

\* C15, amended: no string of a stored record, and none of a record a get
\* returns, holds a raw markup character; a create or update whose username
\* holds markup is rejected with 400 before any store call, so it stores
\* nothing; and a string with markup that validation admits is stored in the
\* record of its create trimmed and escaped twice, never as it was sent.
C15_MarkupEscapedOrRejected ==
    /\ \A n \in DOMAIN store : NoRawMarkup(store[n])
    /\ \A i \in Slots :
          /\ (Done(i) /\ req[i].op = "get" /\ resp[i].status = 200)
             => NoRawMarkup(resp[i].body)
          /\ (/\ req[i].op \in {"post", "put"}
              /\ req[i].op = "put" => isValidObjectId(req[i].id)
              /\ MarkupUsername(req[i].body))
             => /\ Done(i)
                /\ resp[i] = Response(400,
                       ErrorBody("username contains invalid characters"))
                /\ calls[i] = 0
    /\ \A n \in DOMAIN created :
          \A k \in DOMAIN store[n] :
              LET sent == created[n].body.members[k]
              IN  (IsString(sent) /\ HasMarkup(sent.v))
                  => /\ store[n][k].v = escapeHtml(validatorEscape(trim(sent.v)))
                     /\ store[n][k].v # sent.v

\* C15 witness: a get returns a record that an update wrote from a body whose
\* email holds an apostrophe: the email comes back escaped twice.
C15_EscapedEmailFetched ==
    \E i \in Slots :
        /\ Done(i) /\ req[i].op = "get" /\ resp[i].status = 200
        /\ "updatedAt" \in DOMAIN resp[i].body
        /\ resp[i].body.email = Str("o&amp;#x27;k@b.co")

\* The operations of the account routes
RouterOps == {"list", "get", "post", "put", "delete"}

\* C16: in one window at most 50 requests of a client reach a handler; a
\* request to the account routes is answered 429 exactly when it is the 51st
\* or a later one of its client in the window, whatever the other client has
\* sent, and then with the limiter's fixed answer, whatever its path and body,
\* and with no store call.
C16_LimiterAdmitsFifty ==
    /\ \A c \in Clients : admitted[c] <= 50
    /\ \A i \in Slots :
          (Done(i) /\ req[i].op \in RouterOps)
          => (resp[i].status = 429 <=> hits[who[i]] > 50)
    /\ \A i \in Slots :
          (Done(i) /\ resp[i].status = 429)
          => /\ req[i].op \in RouterOps
             /\ resp[i] = TooManyRequests
             /\ calls[i] = 0

\* C16 witness: the 51st request of a client in its window, a create with a
\* body that passes validation, is answered 429 while the other client has
\* used a part of its own budget and the store is still empty.
C16_FiftyFirstRejected ==
    \E i \in Slots, d \in Clients :
        /\ Done(i) /\ req[i].op = "post" /\ Validated[req[i].body].ok
        /\ resp[i].status = 429
        /\ hits[who[i]] = 51 /\ admitted[who[i]] = 50
        /\ d # who[i] /\ hits[d] > 0 /\ hits[d] < 50
        /\ store = <<>> /\ nextId = 1

\* C17: every response with an error status has a JSON body that is an
\* object with the one member error.
C17_ErrorBodiesAreJson ==
    \A i \in Slots :
        (Done(i) /\ resp[i].status \in {400, 404, 409, 429, 500})
        => DOMAIN resp[i].body = {"error"}

\* C18: every response carries the four security headers with the values
\* nosniff, DENY, 1; mode=block and default-src 'self'.
C18_SecurityHeadersOnAll ==
    \A i \in Slots :
        Done(i) =>
            /\ DOMAIN hdr[i] = {"X-Content-Type-Options", "X-Frame-Options",
                                "X-XSS-Protection", "Content-Security-Policy"}
            /\ hdr[i]["X-Content-Type-Options"] = "nosniff"
            /\ hdr[i]["X-Frame-Options"] = "DENY"
            /\ hdr[i]["X-XSS-Protection"] = "1; mode=block"
            /\ hdr[i]["Content-Security-Policy"] = "default-src 'self'"

\* The error the checks of one field raise on the body, taken alone (the
\* empty text when the field passes or is optional and absent)
FieldFailure(members, field) ==
    LET rules  == allowedFields[field]
        absent == field \notin DOMAIN members \/ Falsy(members[field])
    IN  IF rules.required /\ (absent \/ trim(toString(members[field])) = "")
        THEN field \o " is required"
        ELSE IF absent THEN ""
        ELSE FieldError(field, rules, members[field])

\* The first field that fails, in the order username, email, team, country,
\* birthday, level (the empty text when none fails)
FirstFailing(members) ==
    LET order   == <<"username", "email", "team", "country", "birthday", "level">>
        failing == {k \in 1..6 : FieldFailure(members, order[k]) # ""}
    IN  IF failing = {} THEN ""
        ELSE order[CHOOSE k \in failing : \A j \in failing : k <= j]

\* C19: when a create, or an update with a well-formed id, arrives with a body
\* in which a field fails its checks, validation ends with the error of the
\* first failing field in the order username, email, team, country, birthday,
\* level; the request is answered at once, not with 200 or 201, without a store
\* call, and the store is left as it was.
C19_FirstFailureAborts ==
    [][\A i \in Slots :
          (/\ pc[i] = "idle" /\ pc'[i] # "idle"
           /\ req'[i].op \in {"post", "put"}
           /\ req'[i].op = "put" => isValidObjectId(req'[i].id)
           /\ req'[i].body.isObject
           /\ FirstFailing(req'[i].body.members) # "")
          => LET members == req'[i].body.members
             IN  /\ ~Validated[req'[i].body].ok
                 /\ Validated[req'[i].body].message =
                        FieldFailure(members, FirstFailing(members))
                 /\ Done(i)'
                 /\ resp'[i].status \notin {200, 201}
                 /\ calls'[i] = 0
                 /\ store' = store /\ nextId' = nextId]_vars

\* C19 witness: an update of a stored record with a body whose username, email
\* and team all fail is answered with the error of the username, and the
\* record is still what its create stored.
C19_UsernameErrorFirst ==
    \E i \in Slots :
        /\ Done(i) /\ req[i].op = "put" /\ req[i].body = BodyTwoBad
        /\ IdNumber(req[i].id) \in DOMAIN created
        /\ store[IdNumber(req[i].id)] =
               Validated[created[IdNumber(req[i].id)].body].account
        /\ resp[i].body.error = "username contains invalid characters"
        /\ calls[i] = 0

\* C20: what validation returns holds only keys among username, email, team,
\* country, birthday and level, each of them a key of the body; a stored
\* record holds only such keys and the updatedAt date the update handler sets,
\* so no id or _id of a body; and the id a create answers with is the one the
\* store assigned, not one the body carried.
C20_AllowListOnly ==
    LET allowed == {"username", "email", "team", "country", "birthday", "level"}
    IN  /\ \A i \in Slots :
              (req[i].op \in {"post", "put"} /\ Validated[req[i].body].ok)
              => /\ DOMAIN Validated[req[i].body].account \subseteq allowed
                 /\ DOMAIN Validated[req[i].body].account
                        \subseteq DOMAIN req[i].body.members
        /\ \A n \in DOMAIN store :
              /\ DOMAIN store[n] \subseteq allowed \cup {"updatedAt"}
              /\ "updatedAt" \in DOMAIN store[n] => store[n].updatedAt.t = "date"
        /\ \A i \in Slots :
              (Done(i) /\ req[i].op = "post" /\ resp[i].status = 201)
              => /\ resp[i].body.id = IdText(nextId - 1)
                 /\ \A k \in {"id", "_id"} \cap DOMAIN req[i].body.members :
                       req[i].body.members[k].v # resp[i].body.id

\* C20 witness: the record created from a body with the keys _id, id, role and
\* updatedAt is fetched under the id the store assigned: it holds the three
\* required fields and nothing else.
C20_ExtraKeysDropped ==
    \E i \in Slots :
        /\ Done(i) /\ req[i].op = "get" /\ resp[i].status = 200
        /\ IdNumber(req[i].id) \in DOMAIN created
        /\ created[IdNumber(req[i].id)].body = BodyExtraKeys
        /\ DOMAIN resp[i].body = {"_id", "username", "email", "team"}
        /\ resp[i].body["_id"] = Str(req[i].id)
        /\ resp[i].body["_id"] # BodyExtraKeys.members["_id"]

\* C21: when updateOne returns and the update is answered 200, the record of
\* the path id holds the sanitized fields of the body and an updatedAt that is
\* the time the handler read when it issued the update; its other fields are
\* what they were, it is still under the same id, and every other record is
\* what it was.
C21_UpdateFrame ==
    [][\A i \in Slots :
          (Returned(i, "updateOne") /\ resp'[i].status = 200)
          => LET n       == IdNumber(req[i].id)
                 payload == Validated[req[i].body].account
             IN  /\ n \in DOMAIN store
                 /\ DOMAIN store' = DOMAIN store
                 /\ \A m \in DOMAIN store \ {n} : store'[m] = store[m]
                 /\ DOMAIN store'[n] =
                        DOMAIN store[n] \cup DOMAIN payload \cup {"updatedAt"}
                 /\ \A k \in DOMAIN payload : store'[n][k] = payload[k]
                 /\ store'[n].updatedAt.t = "date"
                 /\ store'[n].updatedAt.v = at[i]
                 /\ at[i] <= now
                 /\ \A k \in DOMAIN store[n] \ (DOMAIN payload \cup {"updatedAt"}) :
                       store'[n][k] = store[n][k]
                 /\ nextId' = nextId]_vars

\* C21 witness: a record created with a country, a birthday and a level has
\* been updated, after the clock moved, from a body with the three required
\* fields only: it has the new username, still has its country, birthday and
\* level, and the other record of the store is the one its create stored.
C21_OptionalFieldsKept ==
    \E i \in Slots, m \in DOMAIN created :
        LET n == IdNumber(req[i].id)
        IN  /\ Done(i) /\ req[i].op = "put" /\ resp[i].status = 200
            /\ req[i].body = BodyAsh
            /\ n \in DOMAIN store /\ m # n
            /\ DOMAIN store[n] = {"username", "email", "team", "country", "birthday",
                                  "level", "updatedAt"}
            /\ store[n].username = Str("ash")
            /\ store[n].country = Str("US")
            /\ store[n].level = Num("5")
            /\ store[n].updatedAt.v = 1
            /\ store[m] = Validated[created[m].body].account

\* The body carries a username that is a string with a character outside
\* letters, digits, underscore and hyphen
UsernameOutsideClass(body) ==
    /\ body.isObject
    /\ "username" \in DOMAIN body.members
    /\ IsString(body.members.username)
    /\ \E k \in 1..Len(body.members.username.v) :
          CharAt(body.members.username.v, k) \notin
              Lower \cup Upper \cup Digit \cup {"_", "-"}

\* C22: a create or update whose username holds a character outside letters,
\* digits, underscore and hyphen is rejected by validation (or, an update with
\* a malformed id, before validation): it is answered 400 at once with no store
\* call; and every username in the store is made of such characters only.
C22_UsernameOutsideClassRejected ==
    /\ \A i \in Slots :
          (req[i].op \in {"post", "put"} /\ UsernameOutsideClass(req[i].body))
          => /\ ~Validated[req[i].body].ok
             /\ Done(i)
             /\ resp[i].status = 400
             /\ calls[i] = 0
    /\ \A n \in DOMAIN store :
          AllChars(toString(store[n].username), Lower \cup Upper \cup Digit \cup {"_", "-"})

\* C22 witness: an update of a stored record with a username that only has
\* spaces around a valid name is rejected, and the record keeps the username
\* of its create.
C22_PaddedUsernameRejected ==
    \E i \in Slots :
        /\ Done(i) /\ req[i].op = "put" /\ req[i].body = BodyPaddedUsername
        /\ IdNumber(req[i].id) \in DOMAIN created
        /\ created[IdNumber(req[i].id)].body = BodyGary
        /\ store[IdNumber(req[i].id)].username = Str("gary_1")
        /\ resp[i] = Response(400, ErrorBody("username contains invalid characters"))

\* The body carries no team that is exactly one of the three names
TeamOutsideEnum(body) ==
    /\ body.isObject
    /\ \/ "team" \notin DOMAIN body.members
       \/ body.members.team \notin {Str("instinct"), Str("mystic"), Str("valor")}

\* C23: a create or update whose team is not exactly instinct, mystic or valor
\* is rejected by validation (or, an update with a malformed id, before
\* validation): it is answered at once, not with 200 or 201, with no store
\* call; and the team of every record in the store is one of the three.
C23_TeamOutsideEnumRejected ==
    /\ \A i \in Slots :
          (req[i].op \in {"post", "put"} /\ TeamOutsideEnum(req[i].body))
          => /\ ~Validated[req[i].body].ok
             /\ Done(i)
             /\ resp[i].status \notin {200, 201}
             /\ calls[i] = 0
    /\ \A n \in DOMAIN store :
          store[n].team \in {Str("instinct"), Str("mystic"), Str("valor")}

\* C23 witness: a create whose team only has spaces around a valid name, and
\* whose other fields pass, is rejected with the error of the team while the
\* store holds a record.
C23_PaddedTeamRejected ==
    \E i \in Slots :
        /\ Done(i) /\ req[i].op = "post" /\ req[i].body = BodyPaddedTeam
        /\ Validated[req[i].body].message = EnumError("team")
        /\ resp[i].status \notin {200, 201}
        /\ store # <<>>

\* C24: a list whose store call returned is answered 200 with at most 100
\* records, each of them a record of the store with its id, however many
\* records the store holds.
C24_ListCapped ==
    \A i \in Slots :
        (Done(i) /\ req[i].op = "list" /\ threw[i] = "")
        => /\ resp[i].status = 200
           /\ Cardinality(resp[i].body.accounts) <= 100
           /\ \A a \in resp[i].body.accounts :
                 \E n \in DOMAIN store : a = WithId(n, store[n])

\* C24 witness: a list is answered with exactly 100 records while the store
\* holds more, after the first record was deleted: the record that is gone is
\* not among them.
C24_HundredOfMore ==
    \E i \in Slots :
        /\ Done(i) /\ req[i].op = "list" /\ resp[i].status = 200
        /\ Cardinality(DOMAIN store) > 100
        /\ 1 \notin DOMAIN store
        /\ Cardinality(resp[i].body.accounts) = 100
        /\ \A a \in resp[i].body.accounts : a["_id"] # Str(IdText(1))

\* C25: the component issues a delete request only on a click whose id has
\* length 24 and that the user confirmed, so every delete that reaches the
\* service has such an id; a click with an empty id or an id of another
\* length, or one the user did not confirm, issues no request and does not
\* fetch the list; the list is fetched again when a delete is answered 200,
\* and not when it is answered with an error or fails; and the list is fetched
\* at no other time but the start of the component.
C25_DeleteGuarded ==
    [][/\ ui'.deletes # ui.deletes
          => /\ Len(ui'.id) = 24 /\ ui'.confirmed
             /\ ui'.clicks = ui.clicks + 1
             /\ ui'.deletes = ui.deletes + 1
       /\ (ui'.clicks # ui.clicks /\ (Len(ui'.id) # 24 \/ ~ui'.confirmed))
          => /\ ui'.deletes = ui.deletes /\ ui'.fetches = ui.fetches
             /\ ui'.pc = "ready"
             /\ req' = req /\ pc' = pc
       /\ (req'[1].op = "delete" /\ req[1].op # "delete")
          => Len(req'[1].id) = 24 /\ req'[1].id = ui.id /\ ui.confirmed
       /\ (ui.pc = "deleteAtServer" /\ ui'.pc # "deleteAtServer")
          => ui'.fetches = IF resp[1].status = 200 THEN ui.fetches + 1 ELSE ui.fetches
       /\ (ui.pc = "deleteSent" /\ ui'.pc = "ready") => ui'.fetches = ui.fetches
       /\ ui'.fetches # ui.fetches
          => \/ ui.pc = "init"
             \/ ui.pc = "deleteAtServer" /\ resp[1].status = 200]_vars

\* C25 witness: after three clicks, one refused by the pre-check, one whose
\* delete was answered with an error, and one whose delete was answered 200,
\* the list has just been fetched a second time and the record is gone.
C25_RefetchedAfterDelete ==
    /\ ui.clicks = 3 /\ ui.refused = 1 /\ ui.deletes = 2 /\ ui.alerts = 1
    /\ ui.fetches = 2 /\ ui.pc = "fetchSent"
    /\ IdNumber(ui.id) \in 1..(nextId - 1)
    /\ IdNumber(ui.id) \notin DOMAIN store

\* C26: of the deletes of one id, at most one is ever answered 200; a delete
\* whose store call returned is answered 200 when the call found the record
\* and 404 when it did not; and a delete that was awaiting its store call when
\* another delete of the same id removed the record has lost to exactly one
\* delete answered 200, and is itself answered 404.
C26_OneDeleteWins ==
    /\ \A n \in Ids : wins[n] <= 1
    /\ \A j \in Slots :
          /\ (Done(j) /\ req[j].op = "delete" /\ calls[j] = 1 /\ threw[j] = "")
             => /\ resp[j].status \in {200, 404}
                /\ resp[j].status = 200 <=> ret[j].matchedCount = 1
                /\ resp[j].status = 200
                      => ~late[j] /\ wins[IdNumber(req[j].id)] = 1
          /\ late[j]
             => /\ req[j].op = "delete"
                /\ wins[IdNumber(req[j].id)] = 1
                /\ IdNumber(req[j].id) \notin DOMAIN store
          /\ (late[j] /\ Done(j) /\ threw[j] = "") => resp[j] = AccountNotFound

\* C26 witness: a delete that was in flight together with another delete of
\* the same stored record, and lost, is answered 404.
C26_LoserAnswered404 ==
    \E j \in Slots :
        /\ Done(j) /\ req[j].op = "delete" /\ late[j]
        /\ wins[IdNumber(req[j].id)] = 1
        /\ resp[j].status = 404

\* C27: the set of record ids in the store changes only in a step in which
\* insertOne returns, the create is answered 201 and the set gains the new id,
\* or in which findOneAndDelete returns, the delete is answered 200 and the
\* set loses the id of its path.  An update whose store call returns for an
\* id that no record has is answered 404 and leaves the store as it was.
C27_IdsChangeByCreateAndDelete ==
    [][/\ DOMAIN store' # DOMAIN store
          => \E i \in Slots :
                \/ /\ Returned(i, "insertOne")
                   /\ resp'[i].status = 201
                   /\ nextId \notin DOMAIN store
                   /\ DOMAIN store' = DOMAIN store \cup {nextId}
                   /\ resp'[i].body.id = IdText(nextId)
                \/ /\ Returned(i, "findOneAndDelete")
                   /\ resp'[i].status = 200
                   /\ IdNumber(req[i].id) \in DOMAIN store
                   /\ DOMAIN store' = DOMAIN store \ {IdNumber(req[i].id)}
       /\ \A i \in Slots :
             /\ (pc[i] \in {"find", "findOne", "findOnePost"} /\ pc'[i] # pc[i])
                => store' = store
             /\ pc[i] = "updateOne" /\ pc'[i] # pc[i]
                => DOMAIN store' = DOMAIN store
             /\ (Returned(i, "updateOne") /\ IdNumber(req[i].id) \notin DOMAIN store)
                => /\ resp'[i] = AccountNotFound
                   /\ store' = store]_vars

\* C27 witness: an update of a record that a delete removed is answered 404
\* while another record is in the store, and the record is still gone.
C27_UpdateOfDeletedAnswered404 ==
    \E i \in Slots :
        /\ Done(i) /\ req[i].op = "put" /\ resp[i].status = 404
        /\ threw[i] = ""
        /\ wins[IdNumber(req[i].id)] = 1
        /\ IdNumber(req[i].id) \notin DOMAIN store
        /\ store # <<>>

\* C28: a handler never has sent more than one response, it is done exactly
\* when it has sent one, and what it sent has a status; and when every store
\* call returns or throws, every request that a handler took is answered:
\* its handler gets to the point where it has sent exactly one response.
C28_ExactlyOneResponse ==
    /\ [](\A i \in Slots :
             /\ answers[i] <= 1
             /\ Done(i) <=> answers[i] = 1
             /\ Done(i) => resp[i].status # 0
             /\ pc[i] \in StoreCalls \cup {"idle", "done"})
    /\ \A i \in Slots :
          (req[i].op # "none") ~> (Done(i) /\ answers[i] = 1 /\ resp[i].status # 0)

\* C28 witness: a create that made both of its store calls has sent its one
\* response while the other handler in flight still awaits its store call.
C28_AnsweredAfterTwoCalls ==
    \E i, j \in Slots :
        /\ i # j
        /\ Done(i) /\ req[i].op = "post" /\ calls[i] = 2 /\ answers[i] = 1
        /\ pc[j] \in StoreCalls /\ answers[j] = 0

\* The members of a document that the rule table names
RuleFields(doc) == [k \in DOMAIN doc \cap DOMAIN allowedFields |-> doc[k]]

\* C29: what validation returns for a body it accepts is accepted again and
\* comes back the same; and an update of a stored record whose body holds the
\* fields of the record as they are in the store is answered 200.
C29_SanitizeIdempotent ==
    \A i \in Slots :
        /\ (req[i].op \in {"post", "put"} /\ Validated[req[i].body].ok)
           => LET once  == Validated[req[i].body].account
                  again == sanitizePogoAccount(Object(once))
              IN  again.ok /\ again.account = once
        /\ (/\ Done(i) /\ req[i].op = "put" /\ threw[i] = ""
            /\ IdNumber(req[i].id) \in DOMAIN store
            /\ req[i].body.isObject
            /\ RuleFields(req[i].body.members) = RuleFields(store[IdNumber(req[i].id)]))
           => resp[i].status = 200

\* C30: every username, email, team, country and birthday of a stored record
\* is a string, and so is the email a create hands to its existence check.
C30_TextFieldsAreStrings ==
    /\ \A n \in DOMAIN store :
          \A k \in DOMAIN store[n] \cap
                    {"username", "email", "team", "country", "birthday"} :
              store[n][k].t = "str"
    /\ \A i \in Slots :
          pc[i] = "findOnePost" => Validated[req[i].body].account.email.t = "str"

====
